---- MODULE Spec2Model ----
(***************************************************************************)
(* A model of the Jito client of teamspice/jito: the fee recommendation    *)
(* engine of JitoService (src/src/jito.service.ts), the bundle workflow    *)
(* of the bundle script (src/unnamed/part_000) and the transaction         *)
(* workflow with its polling loop (src/scripts/test-tx.ts).                *)
(*                                                                         *)
(* JavaScript numbers are IEEE-754 binary64 values.  TLC's integers are    *)
(* 32 bits wide, so the 53-bit significands are carried as little-endian   *)
(* sequences of 15-bit limbs and every arithmetic operation of the code    *)
(* (product, quotient, Math.floor) is computed exactly and then rounded    *)
(* to nearest, ties to even, as the hardware does.  The model covers       *)
(* finite numbers in the normal range.                                     *)
(***************************************************************************)
EXTENDS Integers, Sequences, FiniteSets, TLC

(***************************************************************************)
(* Natural numbers of arbitrary size: <<>> is 0, the last limb is not 0.   *)
(***************************************************************************)
LimbBits == 15
Base == 2^15

RECURSIVE BNorm(_)
BNorm(a) ==
  IF a = <<>> THEN <<>>
  ELSE IF a[Len(a)] = 0 THEN BNorm(SubSeq(a, 1, Len(a) - 1))
  ELSE a

RECURSIVE BFromInt(_)
BFromInt(n) == IF n = 0 THEN <<>> ELSE <<n % Base>> \o BFromInt(n \div Base)

RECURSIVE BToInt(_)
BToInt(a) == IF a = <<>> THEN 0 ELSE a[1] + Base * BToInt(Tail(a))

BHead(a) == IF a = <<>> THEN 0 ELSE a[1]
BTail(a) == IF a = <<>> THEN <<>> ELSE Tail(a)

RECURSIVE BAddC(_, _, _)
BAddC(a, b, c) ==
  IF a = <<>> /\ b = <<>>
  THEN (IF c = 0 THEN <<>> ELSE <<c>>)
  ELSE LET x == BHead(a) + BHead(b) + c
       IN  <<x % Base>> \o BAddC(BTail(a), BTail(b), x \div Base)

BAdd(a, b) == BAddC(a, b, 0)

\* a - b for a >= b, limb by limb with a borrow
RECURSIVE BSubB(_, _, _)
BSubB(a, b, w) ==
  IF a = <<>> THEN <<>>
  ELSE LET x == a[1] - BHead(b) - w
       IN  IF x < 0
           THEN <<x + Base>> \o BSubB(Tail(a), BTail(b), 1)
           ELSE <<x>> \o BSubB(Tail(a), BTail(b), 0)

BSub(a, b) == BNorm(BSubB(a, b, 0))

\* -1, 0, 1 as a < b, a = b, a > b: from the most significant limb down
RECURSIVE BCmpAt(_, _, _)
BCmpAt(a, b, i) ==
  IF i = 0 THEN 0
  ELSE IF a[i] < b[i] THEN -1
  ELSE IF a[i] > b[i] THEN 1
  ELSE BCmpAt(a, b, i - 1)

BCmp(a, b) ==
  IF Len(a) < Len(b) THEN -1
  ELSE IF Len(a) > Len(b) THEN 1
  ELSE BCmpAt(a, b, Len(a))

RECURSIVE BMulSmallC(_, _, _)
BMulSmallC(a, k, c) ==
  IF a = <<>> THEN BFromInt(c)
  ELSE LET x == a[1] * k + c
       IN  <<x % Base>> \o BMulSmallC(Tail(a), k, x \div Base)

\* a * k for 0 <= k < Base
BMulSmall(a, k) == BNorm(BMulSmallC(a, k, 0))

RECURSIVE BMulRec(_, _)
BMulRec(a, b) ==
  IF b = <<>> THEN <<>>
  ELSE BAdd(BMulSmallC(a, b[1], 0), <<0>> \o BMulRec(a, Tail(b)))

BMul(a, b) == BNorm(BMulRec(a, b))

\* quotient and remainder of a by k, 0 < k <= Base
RECURSIVE BDivSmallQR(_, _)
BDivSmallQR(a, k) ==
  IF a = <<>> THEN [q |-> <<>>, r |-> 0]
  ELSE LET hi  == BDivSmallQR(Tail(a), k)
           cur == hi.r * Base + a[1]
       IN  [q |-> <<cur \div k>> \o hi.q, r |-> cur % k]

BDivSmall(a, k) == BNorm(BDivSmallQR(a, k).q)

Zeros(n) == [i \in 1..n |-> 0]

\* a * 2^n
BShl(a, n) ==
  IF a = <<>> THEN <<>>
  ELSE Zeros(n \div LimbBits) \o BMulSmall(a, 2^(n % LimbBits))

\* floor(a / 2^n)
BShr(a, n) ==
  IF Len(a) <= n \div LimbBits THEN <<>>
  ELSE BDivSmall(SubSeq(a, (n \div LimbBits) + 1, Len(a)), 2^(n % LimbBits))

RECURSIVE IntBitLen(_)
IntBitLen(n) == IF n = 0 THEN 0 ELSE 1 + IntBitLen(n \div 2)

BBitLen(a) ==
  IF a = <<>> THEN 0 ELSE LimbBits * (Len(a) - 1) + IntBitLen(a[Len(a)])

BIsOdd(a) == BHead(a) % 2 = 1

\* the largest digit g with g * dj <= r, found bit by bit from the top
RECURSIVE BDigit(_, _, _, _)
BDigit(r, dj, bit, g) ==
  IF bit < 0 THEN g
  ELSE IF BCmp(BMulSmall(dj, g + 2^bit), r) <= 0
       THEN BDigit(r, dj, bit - 1, g + 2^bit)
       ELSE BDigit(r, dj, bit - 1, g)

\* long division, one quotient limb per step: j runs from the top limb down
RECURSIVE BDivModRec(_, _, _)
BDivModRec(r, d, j) ==
  IF j < 0 THEN [q |-> <<>>, r |-> r]
  ELSE LET dj == Zeros(j) \o d
           g  == BDigit(r, dj, LimbBits - 1, 0)
           lo == BDivModRec(BSub(r, BMulSmall(dj, g)), d, j - 1)
       IN  [q |-> lo.q \o <<g>>, r |-> lo.r]

\* [q |-> floor(n / d), r |-> n mod d] for d > 0
BDivMod(n, d) ==
  LET x == BDivModRec(n, d, Len(n) - Len(d))
  IN  [q |-> BNorm(x.q), r |-> x.r]

(***************************************************************************)
(* IEEE-754 binary64 numbers (a JavaScript number): the value of           *)
(* [neg, m, e] is (-1)^neg * m * 2^e with 2^52 <= m < 2^53, or m = 0.      *)
(***************************************************************************)
MantBits == 53

Num == [neg : BOOLEAN, m : Seq(Nat), e : Int]
DZero == [neg |-> FALSE, m |-> <<>>, e |-> 0]

\* Each step below is a function of one bound argument, so that TLC takes
\* the value of every intermediate result once.

\* p / q scaled to a quotient of 54 or 55 bits: floor(p * 2^s / q), and
\* whether the division left a remainder
ScaledQuotient[a \in Seq(Nat) \X Seq(Nat)] ==
  LET p == a[1]
      q == a[2]
      s == (MantBits + 1) + BBitLen(q) - BBitLen(p)
  IN  IF q = <<1>>
      THEN (IF s >= 0
            THEN [s |-> s, q |-> BShl(p, s), inexact |-> FALSE]
            ELSE [s |-> s, q |-> BShr(p, -s), inexact |-> BShl(BShr(p, -s), -s) # p])
      ELSE IF s >= 0
           THEN [s |-> s, q |-> BDivMod(BShl(p, s), q).q,
                 inexact |-> BDivMod(BShl(p, s), q).r # <<>>]
           ELSE [s |-> s, q |-> BDivMod(p, BShl(q, -s)).q,
                 inexact |-> BDivMod(p, BShl(q, -s)).r # <<>>]

\* the quotient cut to 53 bits, the bits cut off and what half an ulp is
Cut[x \in [s : Int, q : Seq(Nat), inexact : BOOLEAN]] ==
  [drop    |-> BBitLen(x.q) - MantBits,
   m0      |-> BShr(x.q, BBitLen(x.q) - MantBits),
   low     |-> x.q[1] % 2^(BBitLen(x.q) - MantBits),
   half    |-> 2^(BBitLen(x.q) - MantBits - 1),
   inexact |-> x.inexact]

\* round to nearest, ties to even
RoundUp[c \in [drop : Int, m0 : Seq(Nat), low : Int, half : Int, inexact : BOOLEAN]] ==
  c.low > c.half \/ (c.low = c.half /\ (c.inexact \/ BIsOdd(c.m0)))

\* the significand and the exponent after a carry out of the 53 bits
Renorm[r \in [neg : BOOLEAN, m : Seq(Nat), e : Int]] ==
  IF BBitLen(r.m) > MantBits
  THEN [neg |-> r.neg, m |-> BShr(r.m, 1), e |-> r.e + 1]
  ELSE r

\* the binary64 nearest to (-1)^neg * (p / q) * 2^e, ties to even
D64At[a \in BOOLEAN \X Seq(Nat) \X Seq(Nat) \X Int] ==
  IF a[2] = <<>> THEN DZero
  ELSE LET round[c \in [s : Int, drop : Int, m0 : Seq(Nat), low : Int, half : Int,
                       inexact : BOOLEAN]] ==
             Renorm[[neg |-> a[1],
                     m   |-> IF RoundUp[[drop |-> c.drop, m0 |-> c.m0, low |-> c.low,
                                         half |-> c.half, inexact |-> c.inexact]]
                             THEN BAdd(c.m0, <<1>>)
                             ELSE c.m0,
                     e   |-> a[4] + c.drop - c.s]]
           cut[x \in [s : Int, q : Seq(Nat), inexact : BOOLEAN]] ==
             round[[s |-> x.s] @@ Cut[x]]
       IN  cut[ScaledQuotient[<<a[2], a[3]>>]]

D64(neg, p, q, e) == D64At[<<neg, p, q, e>>]

Abs(n) == IF n < 0 THEN -n ELSE n

\* the number an integer converts to
DFromIntAt[n \in Int] == D64(n < 0, BFromInt(Abs(n)), <<1>>, 0)
DFromInt(n) == DFromIntAt[n]

\* the number a decimal literal num/den parses to (den a power of ten)
DLitAt[a \in Int \X Int] == D64(a[1] < 0, BFromInt(Abs(a[1])), BFromInt(a[2]), 0)
DLit(num, den) == DLitAt[<<num, den>>]

\* x * y and x / y of JavaScript
DMulAt[a \in Num \X Num] ==
  D64(a[1].neg # a[2].neg, BMul(a[1].m, a[2].m), <<1>>, a[1].e + a[2].e)
DMul(x, y) == DMulAt[<<x, y>>]

DDivAt[a \in Num \X Num] ==
  D64(a[1].neg # a[2].neg, a[1].m, a[2].m, a[1].e - a[2].e)
DDiv(x, y) == DDivAt[<<x, y>>]

\* Math.floor(x), as an integer
MathFloorAt[x \in Num] ==
  IF x.m = <<>> THEN 0
  ELSE IF x.e >= 0 THEN (IF x.neg THEN -1 ELSE 1) * BToInt(BShl(x.m, x.e))
  ELSE IF x.neg
       THEN -(BToInt(BShr(x.m, -x.e))
               + (IF BShl(BShr(x.m, -x.e), -x.e) = x.m THEN 0 ELSE 1))
       ELSE BToInt(BShr(x.m, -x.e))
MathFloor(x) == MathFloorAt[x]

\* the clamp left out: the first argument as it is
MathMax_noClamp(a, b) == a

\* Math.max(a, b) on integers
MathMaxAt[a \in Int \X Int] == IF a[1] >= a[2] THEN a[1] ELSE a[2]
MathMax(a, b) == MathMaxAt[<<a, b>>]

(***************************************************************************)
(* The fee recommendation engine: JitoService.calculateRecommendedFees.    *)
(***************************************************************************)
LAMPORTS_PER_SOL == 1000000000
MIN_TIP_LAMPORTS == 1000

\* the literals 0.7 and 0.3 of the source, as the numbers they parse to
PriorityShare == DLit(7, 10)
TipShare == DLit(3, 10)

LamportsPerSol == DFromInt(LAMPORTS_PER_SOL)

\* totalFeeSol * LAMPORTS_PER_SOL
ToLamports(totalFeeSol) == DMul(totalFeeSol, LamportsPerSol)

\* lamports / LAMPORTS_PER_SOL
ToSol(lamports) == DDiv(DFromInt(lamports), LamportsPerSol)

\* the object calculateRecommendedFees returns
FeeRecommendation[f \in [priorityFeeLamports : Int, jitoTipLamports : Int]] ==
  [priorityFeeLamports |-> f.priorityFeeLamports,
   jitoTipLamports     |-> f.jitoTipLamports,
   totalFeeLamports    |-> f.priorityFeeLamports + f.jitoTipLamports,
   priorityFeeSol      |-> ToSol(f.priorityFeeLamports),
   jitoTipSol          |-> ToSol(f.jitoTipLamports),
   totalFeeSol         |-> ToSol(f.priorityFeeLamports + f.jitoTipLamports)]

\* the two amounts, from totalFeeLamports = totalFeeSol * LAMPORTS_PER_SOL
feeSplit[totalFeeLamports \in Num] ==
  [priorityFeeLamports |-> MathFloor(DMul(totalFeeLamports, PriorityShare)),
   jitoTipLamports     |-> MathMax(MathFloor(DMul(totalFeeLamports, TipShare)),
                                   MIN_TIP_LAMPORTS)]

\* the total taken from the input instead of the recomputed sum
calculateRecommendedFees_inputTotal(totalFeeSol) ==
  [FeeRecommendation[feeSplit[ToLamports(totalFeeSol)]]
     EXCEPT !.totalFeeLamports = MathFloor(ToLamports(totalFeeSol))]

\* the priority fee taken as what the tip leaves of the input
calculateRecommendedFees_remainder(totalFeeSol) ==
  FeeRecommendation[
    [feeSplit[ToLamports(totalFeeSol)]
       EXCEPT !.priorityFeeLamports =
                MathFloor(ToLamports(totalFeeSol))
                  - feeSplit[ToLamports(totalFeeSol)].jitoTipLamports]]

calculateRecommendedFees(totalFeeSol) ==
  FeeRecommendation[feeSplit[ToLamports(totalFeeSol)]]

(***************************************************************************)
(* The state of one client.  A run is one top-level call (a method of      *)
(* JitoService or a script); the code between two awaits is one step.      *)
(***************************************************************************)
VARIABLES
  run,       \* the top-level call of this run and its arguments
  stack,     \* the call stack, the running function last: frames [fn, pc, loc]
  ret,       \* how the last call that ended ended: [kind, val]
  net,       \* the network requests of this run, in order, with their responses
  calcArgs,  \* the arguments calculateRecommendedFees was invoked with in this run
  now,       \* Date.now(), in ms
  console    \* what the script of this run printed

vars == <<run, stack, ret, net, calcArgs, now, console>>

None == [kind |-> "none"]
Returned(v) == [kind |-> "return", val |-> v]
Thrown(e) == [kind |-> "throw", val |-> e]

Top == stack[Len(stack)]
At(fn, pc) == stack # <<>> /\ Top.fn = fn /\ Top.pc = pc
Caller == SubSeq(stack, 1, Len(stack) - 1)
\* no run is under way
Idle == run.op = "none"
\* the run has ended: its stack is empty and ret holds how it ended
Ended == run.op # "none" /\ stack = <<>>

\* a request as it is issued, and the same request once it has settled
Pending(req) == [req |-> req, resp |-> [t |-> "pending"]]
Settle(log, resp) == [log EXCEPT ![Len(log)].resp = resp]

\* how a request settles: the promise rejects, or an HTTP response arrives
Rejected == [t |-> "reject"]
HttpError(status) == [t |-> "http", ok |-> FALSE, status |-> status]
HttpOk(body) == [t |-> "http", ok |-> TRUE, status |-> 200, body |-> body]
ErrorStatuses == {404, 500}

(***************************************************************************)
(* JitoService.getTipFloor                                                 *)
(***************************************************************************)
TipFloorUrl == "https://bundles.jito.wtf/api/v1/bundles/tip_floor"

\* the number a JSON document holds for an amount of t lamports, in SOL
Sol(t) == DLit(t, LAMPORTS_PER_SOL)

Sample(p50, p75, p95, p99) ==
  [time |-> "t",
   landed_tips_25th_percentile |-> Sol(200),
   landed_tips_50th_percentile |-> Sol(p50),
   landed_tips_75th_percentile |-> Sol(p75),
   landed_tips_95th_percentile |-> Sol(p95),
   landed_tips_99th_percentile |-> Sol(p99),
   ema_landed_tips_50th_percentile |-> Sol(p50)]

\* the samples the endpoint may hold; 300000 lamports is 0.0003 SOL
TipSamples ==
  { Sample(500, 300000, 1003, 2000000),
    Sample(1003, 500, 300000, 5000),
    Sample(300000, 1003, 500, 1003),
    Sample(1000, 999, 1000000, 300000) }

MaxSamples == 2

RECURSIVE SeqsUpTo(_, _)
SeqsUpTo(S, n) ==
  IF n = 0 THEN {<<>>}
  ELSE LET shorter == SeqsUpTo(S, n - 1)
       IN  shorter \cup {Append(q, x) : q \in {r \in shorter : Len(r) = n - 1}, x \in S}

\* a JSON body: null, or an array
JsonNull == [null |-> TRUE, items |-> <<>>]
JsonArray(items) == [null |-> FALSE, items |-> items]

TipFloorBodies == {JsonNull} \cup {JsonArray(q) : q \in SeqsUpTo(TipSamples, MaxSamples)}

TipFloorResponses ==
  {Rejected} \cup {HttpError(c) : c \in ErrorStatuses} \cup {HttpOk(b) : b \in TipFloorBodies}

\* the call, up to its first await: fetch(url)
getTipFloorFrame == [fn |-> "getTipFloor", pc |-> "fetch", loc |-> [x |-> 0]]
getTipFloorRequest ==
  Pending([verb |-> "GET", url |-> TipFloorUrl, method |-> "", params |-> <<>>])

\* an empty array rejected here, not by the caller
getTipFloorResult_throwsOnEmpty(resp) ==
  IF resp.t = "reject" THEN Thrown([message |-> "fetch failed", status |-> 0])
  ELSE IF ~resp.ok
       THEN Thrown([message |-> "Failed to fetch tip floor", status |-> resp.status])
       ELSE IF ~resp.body.null /\ resp.body.items = <<>>
            THEN Thrown([message |-> "No tip floor data available", status |-> 0])
            ELSE Returned(resp.body)

\* what getTipFloor does with the settled fetch
getTipFloorResult(resp) ==
  IF resp.t = "reject" THEN Thrown([message |-> "fetch failed", status |-> 0])
  ELSE IF ~resp.ok
       THEN Thrown([message |-> "Failed to fetch tip floor", status |-> resp.status])
       ELSE Returned(resp.body)

StartGetTipFloor ==
  /\ Idle
  /\ run' = [op |-> "getTipFloor"]
  /\ stack' = <<getTipFloorFrame>>
  /\ net' = <<getTipFloorRequest>>
  /\ ret' = None
  /\ calcArgs' = <<>>
  /\ console' = <<>>
  /\ now' = 0

GetTipFloorSettles ==
  /\ At("getTipFloor", "fetch")
  /\ \E resp \in TipFloorResponses :
       /\ net' = Settle(net, resp)
       /\ ret' = getTipFloorResult(resp)
  /\ stack' = Caller
  /\ UNCHANGED <<run, calcArgs, now, console>>

(***************************************************************************)
(* JitoService.getRecommendedFeeFromTipFloor                               *)
(***************************************************************************)
TipPercentile == {"p50", "p75", "p95", "p99"}

\* the switch on the percentile
tipAmountOf(latestData, percentile) ==
  CASE percentile = "p50" -> latestData.landed_tips_50th_percentile
    [] percentile = "p75" -> latestData.landed_tips_75th_percentile
    [] percentile = "p95" -> latestData.landed_tips_95th_percentile
    [] percentile = "p99" -> latestData.landed_tips_99th_percentile

\* the last sample read instead of the first
latestData_oldest(tipFloor) == tipFloor.items[Len(tipFloor.items)]

\* the sample the recommendation reads
latestData(tipFloor) == tipFloor.items[1]

\* totalFeeSol = jitoTipSol / 0.3
impliedTotalFeeSol(tipAmount) == DDiv(tipAmount, TipShare)

noTipFloorData(tipFloor) == tipFloor.null \/ Len(tipFloor.items) = 0

getRecommendedFrame(percentile) ==
  [fn |-> "getRecommendedFeeFromTipFloor", pc |-> "awaitTipFloor",
   loc |-> [percentile |-> percentile]]

StartGetRecommendedFee ==
  /\ Idle
  /\ \E percentile \in TipPercentile :
       /\ run' = [op |-> "getRecommendedFeeFromTipFloor", percentile |-> percentile]
       /\ stack' = <<getRecommendedFrame(percentile), getTipFloorFrame>>
  /\ net' = <<getTipFloorRequest>>
  /\ ret' = None
  /\ calcArgs' = <<>>
  /\ console' = <<>>
  /\ now' = 0

noTipFloorDataError == Thrown([message |-> "No tip floor data available", status |-> 0])

\* a failed fetch reported as missing data
getRecommendedFeeResult_wrapError(outcome, percentile) ==
  IF outcome.kind = "throw" \/ noTipFloorData(outcome.val) THEN noTipFloorDataError
  ELSE Returned(calculateRecommendedFees(
         impliedTotalFeeSol(tipAmountOf(latestData(outcome.val), percentile))))

\* how the method ends, given how its call of getTipFloor ended
getRecommendedFeeResult(outcome, percentile) ==
  IF outcome.kind = "throw" THEN outcome
  ELSE IF noTipFloorData(outcome.val) THEN noTipFloorDataError
  ELSE Returned(calculateRecommendedFees(
         impliedTotalFeeSol(tipAmountOf(latestData(outcome.val), percentile))))

\* after `await this.getTipFloor()`
GetRecommendedFeeContinues ==
  /\ At("getRecommendedFeeFromTipFloor", "awaitTipFloor")
  /\ ret.kind # "none"
  /\ stack' = Caller
  /\ ret' = getRecommendedFeeResult(ret, Top.loc.percentile)
  /\ calcArgs' = IF ret'.kind = "return"
                 THEN Append(calcArgs,
                        impliedTotalFeeSol(tipAmountOf(latestData(ret.val), Top.loc.percentile)))
                 ELSE calcArgs
  /\ UNCHANGED <<run, net, now, console>>

(***************************************************************************)
(* A direct call of calculateRecommendedFees.                              *)
(***************************************************************************)
BudgetLamports ==
  {0, 1, 7, 90, 999, 1000, 3333, 3334, 3340, 3830, 10000, 700000, 1000000,
   123456789, 1500000000}

Budgets ==
  {Sol(t) : t \in BudgetLamports}
    \cup {[Sol(t) EXCEPT !.neg = TRUE] : t \in {90, 5000}}
    \cup {impliedTotalFeeSol(Sol(t)) : t \in {1003, 300000}}

CallCalculateRecommendedFees ==
  /\ Idle
  /\ \E totalFeeSol \in Budgets :
       /\ run' = [op |-> "calculateRecommendedFees", totalFeeSol |-> totalFeeSol]
       /\ ret' = Returned(calculateRecommendedFees(totalFeeSol))
       /\ calcArgs' = <<totalFeeSol>>
  /\ stack' = <<>>
  /\ net' = <<>>
  /\ console' = <<>>
  /\ now' = 0

(***************************************************************************)
(* JitoService.simulateBundle                                              *)
(***************************************************************************)
Undefined == "<undefined>"
RpcUrl == "https://rpc.example/?api-key=k"
Endpoints == {Undefined, "", RpcUrl}

\* only the absent endpoint refused
Falsy_undefinedOnly(str) == str = Undefined

\* !rpcEndpoint
Falsy(str) == str = Undefined \/ str = ""

\* an optional boolean field of the params object
Unset == [set |-> FALSE, v |-> FALSE]
Given(b) == [set |-> TRUE, v |-> b]
OptBool == {Unset} \cup {Given(b) : b \in BOOLEAN}
\* the flag the caller gave is dropped
OrDefault_ignoresGiven(opt, d) == d

OrDefault(opt, d) == IF opt.set THEN opt.v ELSE d

EncodedTxs == {"dHgx", "dHgy"}
MaxTxs == 2

SimulateBundleParams ==
  [encodedTransactions : SeqsUpTo(EncodedTxs, MaxTxs),
   skipSigVerify : OptBool,
   replaceRecentBlockhash : OptBool]

\* requestBody, as destructured from params with the defaults
simulateRequestBody(params) ==
  [jsonrpc |-> "2.0",
   id      |-> "1",
   method  |-> "simulateBundle",
   params  |-> << [encodedTransactions    |-> params.encodedTransactions,
                   skipSigVerify          |-> OrDefault(params.skipSigVerify, FALSE),
                   replaceRecentBlockhash |-> OrDefault(params.replaceRecentBlockhash, FALSE)] >>]

simulateBundleRequest(params, rpcEndpoint) ==
  Pending([verb |-> "POST", url |-> rpcEndpoint,
           method |-> simulateRequestBody(params).method,
           params |-> simulateRequestBody(params).params])

simulateBundleFrame == [fn |-> "simulateBundle", pc |-> "fetch", loc |-> [x |-> 0]]

endpointRequired ==
  Thrown([message |-> "RPC endpoint is required for bundle simulation", status |-> 0])

\* the log lines the simulation reports for one transaction
LogsOf(tx) == << <<tx, "invoke">>, <<tx, "success">> >>
\* logs, when present: one group per transaction, in submission order
LogsFor(txs) == [i \in 1..Len(txs) |-> LogsOf(txs[i])]

NoErr == "null"
SimErrs == {NoErr, "InstructionError"}

\* the JSON-RPC envelopes a simulation can answer with
SimulateBodies(txs) ==
  { [hasError |-> e, hasResult |-> FALSE, err |-> NoErr, hasLogs |-> FALSE, logs |-> <<>>]
      : e \in BOOLEAN }
  \cup
  { [hasError |-> e, hasResult |-> TRUE, err |-> x, hasLogs |-> l,
     logs |-> IF l THEN LogsFor(txs) ELSE <<>>]
      : e \in BOOLEAN, x \in SimErrs, l \in BOOLEAN }

SimulateResponses(txs) ==
  {Rejected} \cup {HttpError(c) : c \in ErrorStatuses}
             \cup {HttpOk(b) : b \in SimulateBodies(txs)}

\* what simulateBundle does with the settled fetch
simulateBundleResult(resp) ==
  IF resp.t = "reject" THEN Thrown([message |-> "fetch failed", status |-> 0])
  ELSE IF ~resp.ok
       THEN Thrown([message |-> "Failed to simulate bundle", status |-> resp.status])
       ELSE Returned(resp.body)

StartSimulateBundle ==
  /\ Idle
  /\ \E params \in SimulateBundleParams, rpcEndpoint \in Endpoints :
       /\ run' = [op |-> "simulateBundle", params |-> params, rpcEndpoint |-> rpcEndpoint]
       /\ IF Falsy(rpcEndpoint)
          THEN /\ stack' = <<>>
               /\ ret' = endpointRequired
               /\ net' = <<>>
          ELSE /\ stack' = <<simulateBundleFrame>>
               /\ ret' = None
               /\ net' = <<simulateBundleRequest(params, rpcEndpoint)>>
  /\ calcArgs' = <<>>
  /\ console' = <<>>
  /\ now' = 0

\* the transactions of the request that is in flight
requestedTxs == net[Len(net)].req.params[1].encodedTransactions

SimulateBundleSettles ==
  /\ At("simulateBundle", "fetch")
  /\ \E resp \in SimulateResponses(requestedTxs) :
       /\ net' = Settle(net, resp)
       /\ ret' = simulateBundleResult(resp)
  /\ stack' = Caller
  /\ UNCHANGED <<run, calcArgs, now, console>>

(***************************************************************************)
(* JitoService.getRandomTipAccount                                         *)
(***************************************************************************)
TIP_ACCOUNTS ==
  << "96gYZGLnJYVFmbjzopPSU6QiEV5fGqZNyN9nmNhvrZU5",
     "HFqU5x63VTqvQss8hp11i4wVV8bD44PvwucfZ2bU7gRe",
     "Cw8CFyM9FkoMi7K7Crf6HNQqf4uEMzpKw6QNghXLvLkY",
     "ADaUMid9yfUytqMBgopwjb2DTLSokTSzL1zt6iGPaS49",
     "DfXygSm4jCyNCybVYYK6DwvWqjKee8pbDmJGcLWNDXjh",
     "ADuUkR4vqLUMWXxW9gh6D6L8pMSawimctcNZ5pGwDcEt",
     "DttWaMuVvTiduZRnguLF7jNxTgiMBZ1hyAumKUiL2KRL",
     "3AVi9Tg9Uo68tJfuvoKvqKNWKkC5wPdSSdeBnizKZ6jT" >>

\* the largest number below 1: 1 - 2^-53
MaxBelowOne == [neg |-> FALSE, m |-> <<32767, 32767, 32767, 255>>, e |-> -53]

\* values Math.random() may draw, all in [0, 1): the eighths, which are the
\* least draws of each index, and draws inside and at the end of the range
RandomDraws ==
  {DLit(125 * k, 1000) : k \in 0..7} \cup {DLit(3, 10), DLit(999, 1000), MaxBelowOne}

\* Math.floor(Math.random() * TIP_ACCOUNTS.length); sequences here start at 1
\* the index rounded up
randomIndex_ceil(random) == MathFloor(DMul(random, DFromInt(Len(TIP_ACCOUNTS)))) + 1

randomIndex(random) == MathFloor(DMul(random, DFromInt(Len(TIP_ACCOUNTS))))
\* TIP_ACCOUNTS[randomIndex]: undefined outside the array
tipAccountAt(index) ==
  IF index + 1 \in DOMAIN TIP_ACCOUNTS THEN TIP_ACCOUNTS[index + 1] ELSE Undefined

\* the method has no await: the call ends at once
StartGetRandomTipAccount ==
  /\ Idle
  /\ \E random \in RandomDraws :
       /\ run' = [op |-> "getRandomTipAccount", random |-> random]
       /\ ret' = Returned(tipAccountAt(randomIndex(random)))
  /\ stack' = <<>>
  /\ net' = <<>>
  /\ calcArgs' = <<>>
  /\ console' = <<>>
  /\ now' = 0

(***************************************************************************)
(* The bundle script: testBundle.                                          *)
(***************************************************************************)
\* one console.log or console.error call: what it says and the value it shows
Ev(e, arg) == [e |-> e, arg |-> arg]
Say(e) == Ev(e, "")

\* what stops the script before its try block
Environments == {"ok", "no HELIUS_API_KEY", "no wallet", "no JITO_UUID"}

BlockEngineBundles == "https://mainnet.block-engine.jito.wtf/api/v1/bundles"
ConfirmTimeoutMs == 120000

\* the two transactions of the bundle, serialized and base64 encoded
bundleTransactions == <<"dHgx", "dHgy">>

testBundleFrame(pc) == [fn |-> "testBundle", pc |-> pc, loc |-> [bundleId |-> ""]]

getLatestBlockhashRequest ==
  Pending([verb |-> "POST", url |-> RpcUrl, method |-> "getLatestBlockhash", params |-> <<>>])
sendBundleRequest(txs) ==
  Pending([verb |-> "POST", url |-> BlockEngineBundles, method |-> "sendBundle",
           params |-> <<txs, [encoding |-> "base64"]>>])
confirmInflightBundleCall(bundleId, timeoutMs) ==
  Pending([verb |-> "CALL", url |-> BlockEngineBundles, method |-> "confirmInflightBundle",
           params |-> <<bundleId, timeoutMs>>])
getBundleStatusesRequest(bundleId) ==
  Pending([verb |-> "POST", url |-> BlockEngineBundles, method |-> "getBundleStatuses",
           params |-> << <<bundleId>> >>])

\* the catch block of the script: the error is printed and the script ends
Caught(error) == Append(console, Ev("Error sending or confirming bundle:", error.message))

\* the forEach over result.logs
printLogs(logs) ==
  <<Say("Simulation logs:")>>
    \o [i \in 1..Len(logs) |-> Ev("Transaction logs:", [index |-> i, lines |-> logs[i]])]

StartTestBundle ==
  /\ Idle
  /\ \E env \in Environments :
       /\ run' = [op |-> "testBundle", env |-> env]
       /\ IF env = "ok"
          THEN /\ stack' = <<testBundleFrame("awaitFees"), getRecommendedFrame("p75"),
                             getTipFloorFrame>>
               /\ net' = <<getTipFloorRequest>>
               /\ ret' = None
               /\ console' = <<Say("Fetching recommended fees...")>>
          ELSE /\ stack' = <<>>
               /\ net' = <<>>
               /\ ret' = Returned(Undefined)
               /\ console' = <<Say(env)>>
  /\ calcArgs' = <<>>
  /\ now' = 0

\* after `await jitoService.getRecommendedFeeFromTipFloor(TipPercentile.P75)`,
\* through getRandomTipAccount, up to `await connection.getLatestBlockhash()`
TestBundleAfterFees ==
  /\ At("testBundle", "awaitFees")
  /\ ret.kind # "none"
  /\ IF ret.kind = "throw"
     THEN /\ console' = Caught(ret.val)
          /\ stack' = <<>>
          /\ ret' = Returned(Undefined)
          /\ UNCHANGED net
     ELSE \E random \in RandomDraws :
            /\ console' = console \o <<Ev("Recommended fees:", ret.val),
                                       Ev("Using Jito tip account:",
                                          tipAccountAt(randomIndex(random)))>>
            /\ stack' = <<testBundleFrame("awaitBlockhash")>>
            /\ ret' = None
            /\ net' = Append(net, getLatestBlockhashRequest)
  /\ UNCHANGED <<run, calcArgs, now>>

BlockhashResponses == {Rejected, HttpOk([blockhash |-> "hash"])}

\* after the blockhash: both transactions are built, signed and encoded, and
\* simulateBundle is called
TestBundleAfterBlockhash ==
  /\ At("testBundle", "awaitBlockhash")
  /\ \E resp \in BlockhashResponses :
       IF resp.t = "reject"
       THEN /\ net' = Settle(net, resp)
            /\ console' = Caught([message |-> "failed to get recent blockhash"])
            /\ stack' = <<>>
            /\ ret' = Returned(Undefined)
       ELSE /\ console' = Append(console, Say("Simulating bundle before sending..."))
            /\ stack' = <<testBundleFrame("awaitSimulation"), simulateBundleFrame>>
            /\ ret' = None
            /\ net' = Append(Settle(net, resp),
                        simulateBundleRequest(
                          [encodedTransactions |-> bundleTransactions,
                           skipSigVerify |-> Given(FALSE),
                           replaceRecentBlockhash |-> Given(FALSE)], RpcUrl))
  /\ UNCHANGED <<run, calcArgs, now>>

\* if (simulationResult.error)
simulationFailedWithError(sim) == sim.hasError
\* the script stops on result.err only when the result has logs to show
simulationFailed_logsOnly(sim) == sim.hasResult /\ sim.err # NoErr /\ sim.hasLogs

\* if (simulationResult.result?.err)
simulationFailed(sim) == sim.hasResult /\ sim.err # NoErr

\* what the script prints about the simulation
simulationReport(sim) ==
  IF simulationFailedWithError(sim)
  THEN <<Say("Bundle simulation failed with error:")>>
  ELSE IF simulationFailed(sim)
  THEN <<Ev("Bundle simulation failed:", sim.err)>>
         \o (IF sim.hasLogs THEN printLogs(sim.logs) ELSE <<>>)
  ELSE <<Say("Bundle simulation successful!")>>
         \o (IF sim.hasResult /\ sim.hasLogs THEN printLogs(sim.logs) ELSE <<>>)
         \o <<Say("Sending bundle with 2 transactions...")>>

\* after `await jitoService.simulateBundle(...)`, up to `await jitoService.sendBundle(...)`
TestBundleAfterSimulation ==
  /\ At("testBundle", "awaitSimulation")
  /\ ret.kind # "none"
  /\ IF ret.kind = "throw"
     THEN /\ console' = Caught(ret.val)
          /\ stack' = <<>>
          /\ ret' = Returned(Undefined)
          /\ UNCHANGED net
     ELSE /\ console' = console \o simulationReport(ret.val)
          /\ IF simulationFailedWithError(ret.val) \/ simulationFailed(ret.val)
             THEN /\ stack' = <<>>
                  /\ ret' = Returned(Undefined)
                  /\ UNCHANGED net
             ELSE /\ stack' = <<testBundleFrame("awaitSend")>>
                  /\ ret' = None
                  /\ net' = Append(net, sendBundleRequest(bundleTransactions))
  /\ UNCHANGED <<run, calcArgs, now>>

\* what the relay answers to sendBundle
BundleIds == {"bundle-1", "bundle-2"}
SendBundleBodies ==
  {[hasResult |-> TRUE, result |-> id, hasError |-> FALSE] : id \in BundleIds}
    \cup {[hasResult |-> TRUE, result |-> "", hasError |-> FALSE],
          [hasResult |-> FALSE, result |-> "", hasError |-> TRUE],
          [hasResult |-> FALSE, result |-> "", hasError |-> FALSE]}
SendBundleResponses == {Rejected} \cup {HttpOk(b) : b \in SendBundleBodies}

\* only the error of the response is looked at
noBundleId_errorOnly(body) == body.hasError

\* if (!result.result)
noBundleId(body) == ~body.hasResult \/ body.result = ""

\* after `await jitoService.sendBundle(...)`, up to
\* `await jitoService.confirmInflightBundle(bundleId, 120000)`
TestBundleAfterSend ==
  /\ At("testBundle", "awaitSend")
  /\ \E resp \in SendBundleResponses :
       /\ IF resp.t = "reject"
          THEN /\ net' = Settle(net, resp)
               /\ console' = Caught([message |-> "Request failed"])
               /\ stack' = <<>>
               /\ ret' = Returned(Undefined)
          ELSE IF noBundleId(resp.body)
          THEN /\ net' = Settle(net, resp)
               /\ console' = console \o <<Ev("Bundle send result:", resp.body),
                                          Say("Failed to get bundle ID from response")>>
               /\ stack' = <<>>
               /\ ret' = Returned(Undefined)
          ELSE /\ net' = Append(Settle(net, resp),
                           confirmInflightBundleCall(resp.body.result, ConfirmTimeoutMs))
               /\ console' = console \o <<Ev("Bundle send result:", resp.body),
                                          Ev("Bundle ID:", resp.body.result),
                                          Say("Waiting for bundle confirmation...")>>
               /\ stack' = <<[testBundleFrame("awaitConfirmation")
                                EXCEPT !.loc.bundleId = resp.body.result]>>
               /\ ret' = None
  /\ UNCHANGED <<run, calcArgs, now>>

\* the status objects confirmInflightBundle may hand back: which fields the
\* object has, and their values
StatusFields == {"confirmation_status", "slot", "status", "landed_slot", "err"}
ConfirmationStatuses == {"confirmed", "finalized"}
StatusValues == {"Pending", "Landed", "Failed", "Invalid", "Timeout"}
ErrValues == {NoErr, "InstructionError"}

InflightStatuses ==
  { [has |-> h,
     confirmation_status |-> c,
     slot |-> 7,
     status |-> st,
     landed_slot |-> 42,
     err |-> e] :
      h \in SUBSET StatusFields, c \in ConfirmationStatuses, st \in StatusValues,
      e \in ErrValues }

\* two objects with the same fields and the same values in them are the same object
SameStatus(s) ==
  [has |-> s.has,
   confirmation_status |-> IF "confirmation_status" \in s.has THEN s.confirmation_status ELSE "",
   slot |-> IF "slot" \in s.has THEN s.slot ELSE 0,
   status |-> IF "status" \in s.has THEN s.status ELSE "",
   landed_slot |-> IF "landed_slot" \in s.has THEN s.landed_slot ELSE 0,
   err |-> IF "err" \in s.has THEN s.err ELSE NoErr]

InflightOutcomes ==
  {Thrown([message |-> "Request failed"])}
    \cup {Returned(s) : s \in {SameStatus(x) : x \in InflightStatuses}}

\* `${value}` of a number field that may be missing
NumberText(s, field, n) ==
  IF field \in s.has THEN [t |-> "number", n |-> n] ELSE [t |-> "undefined", n |-> 0]
UnknownText == [t |-> "unknown", n |-> 0]

\* "confirmation_status" in inflightStatus && inflightStatus.confirmation_status === "confirmed"
isConfirmed(s) == "confirmation_status" \in s.has /\ s.confirmation_status = "confirmed"

\* the chain of tests on the inflight status, and what each branch prints
inflightReport(s) ==
  IF isConfirmed(s)
  THEN <<Ev("Bundle successfully confirmed on-chain at slot", NumberText(s, "slot", s.slot))>>
  ELSE IF "status" \in s.has
  THEN IF s.status = "Landed"
       THEN <<Ev("Bundle landed at slot",
                 IF "landed_slot" \in s.has THEN NumberText(s, "landed_slot", s.landed_slot)
                 ELSE UnknownText)>>
       ELSE IF s.status = "Failed" \/ s.status = "Invalid"
       THEN <<Ev("Bundle processing failed with status:", s.status)>>
       ELSE IF s.status = "Pending"
       THEN <<Say("Bundle is still pending")>>
       ELSE <<>>
  ELSE IF "err" \in s.has /\ s.err # NoErr
  THEN <<Ev("Bundle processing failed:", s.err)>>
  ELSE <<Ev("Unexpected inflight bundle status:", s)>>

\* after `await jitoService.confirmInflightBundle(bundleId, 120000)`
TestBundleAfterConfirmation ==
  /\ At("testBundle", "awaitConfirmation")
  /\ \E outcome \in InflightOutcomes :
       IF outcome.kind = "throw"
       THEN /\ net' = Settle(net, Rejected)
            /\ console' = Caught(outcome.val)
            /\ stack' = <<>>
            /\ ret' = Returned(Undefined)
       ELSE /\ console' = console \o <<Ev("Inflight bundle status:", outcome.val)>>
                            \o inflightReport(outcome.val)
                            \o (IF isConfirmed(outcome.val)
                                THEN <<Say("Fetching final bundle status...")>> ELSE <<>>)
            /\ IF isConfirmed(outcome.val)
               THEN /\ net' = Append(Settle(net, HttpOk(outcome.val)),
                                getBundleStatusesRequest(Top.loc.bundleId))
                    /\ stack' = <<[Top EXCEPT !.pc = "awaitFinalStatus"]>>
                    /\ ret' = None
               ELSE /\ net' = Settle(net, HttpOk(outcome.val))
                    /\ stack' = <<>>
                    /\ ret' = Returned(Undefined)
  /\ UNCHANGED <<run, calcArgs, now>>

\* what getBundleStatuses answers: no value, or one status with its transactions
FinalStatusBodies ==
  {[values |-> 0, transactions |-> <<>>]}
    \cup {[values |-> 1, transactions |-> t] : t \in {<<>>, <<"sig1", "sig2">>}}
FinalStatusResponses == {Rejected} \cup {HttpOk(b) : b \in FinalStatusBodies}

finalStatusReport(resp) ==
  IF resp.t = "reject"
  THEN <<Ev("Error fetching final bundle status:", "Request failed")>>
  ELSE IF resp.body.values = 0
  THEN <<Say("Unexpected final bundle status response structure")>>
  ELSE IF Len(resp.body.transactions) > 0
  THEN <<Ev("Transaction URLs", resp.body.transactions)>>
  ELSE <<Say("No transactions found in the bundle status.")>>

\* after `await jitoService.getBundleStatuses([[bundleId]])`, in its own try block
TestBundleAfterFinalStatus ==
  /\ At("testBundle", "awaitFinalStatus")
  /\ \E resp \in FinalStatusResponses :
       /\ net' = Settle(net, resp)
       /\ console' = console \o finalStatusReport(resp)
  /\ stack' = <<>>
  /\ ret' = Returned(Undefined)
  /\ UNCHANGED <<run, calcArgs, now>>

(***************************************************************************)
(* The polling loop of the transaction script: confirmTransaction.         *)
(***************************************************************************)
PollIntervalMs == 1000

\* how long a status query may take, in ms
Latencies == {0, 500}

Signatures == {"sig-1", "sig-2"}
\* the timeouts callers pass; the script passes 120000
Timeouts == {-1, 0, 1500, 3000, ConfirmTimeoutMs}

\* what connection.getSignatureStatus resolves to: value null, or a status
NullStatus == [hasValue |-> FALSE, confirmationStatus |-> "", err |-> NoErr]
SignatureStatuses ==
  {NullStatus}
    \cup {[hasValue |-> TRUE, confirmationStatus |-> c, err |-> e] :
            c \in {"processed", "confirmed", "finalized"}, e \in ErrValues}
SignatureStatusResponses == {Rejected} \cup {HttpOk(st) : st \in SignatureStatuses}

getSignatureStatusRequest(signature) ==
  [verb |-> "POST", url |-> RpcUrl, method |-> "getSignatureStatuses",
   params |-> <<signature>>]

\* a query as it is issued, with the place in the function that issued it
\* and the time of the clock at which it was issued
PendingAt(req, site, clock) ==
  [req |-> req, resp |-> [t |-> "pending"], site |-> site, at |-> clock]

\* the log keeps the last of the queries the loop repeats
Issue(log, query) ==
  IF log # <<>> /\ log[Len(log)].req = query.req /\ log[Len(log)].site = query.site
  THEN [log EXCEPT ![Len(log)] = query]
  ELSE Append(log, query)

confirmTransactionFrame(signature, timeoutMs, start) ==
  [fn |-> "confirmTransaction", pc |-> "firstQuery",
   loc |-> [signature |-> signature, timeoutMs |-> timeoutMs, start |-> start,
            status |-> NullStatus]]

\* the start time kept in one place for all the calls: the call that started
\* last has overwritten it
loopGoesOn_sharedStart(loc, clock) == clock - stack[Len(stack)].loc.start < loc.timeoutMs

\* while (Date.now() - start < timeoutMs)
loopGoesOn(loc, clock) == clock - loc.start < loc.timeoutMs

\* status.value && status.value.confirmationStatus === "finalized"
isFinalized(status) == status.hasValue /\ status.confirmationStatus = "finalized"

confirmationTimeout(loc) ==
  Thrown([message |-> "failed to confirm within",
          signature |-> loc.signature, timeoutMs |-> loc.timeoutMs])

queryFailed == Thrown([message |-> "failed to get signature status"])

StartConfirmTransaction ==
  /\ Idle
  /\ \E signature \in Signatures, timeoutMs \in Timeouts :
       /\ run' = [op |-> "confirmTransaction", signature |-> signature,
                  timeoutMs |-> timeoutMs]
       /\ stack' = <<confirmTransactionFrame(signature, timeoutMs, 0)>>
       /\ net' = <<PendingAt(getSignatureStatusRequest(signature), "before the loop", 0)>>
  /\ ret' = None
  /\ calcArgs' = <<>>
  /\ console' = <<>>
  /\ now' = 0

\* the test of the while loop at the time `clock`, with the log as it stands:
\* the next query is issued, or the function throws
LoopTest(frame, clock, log) ==
  IF loopGoesOn(frame.loc, clock)
  THEN /\ stack' = Append(Caller, [frame EXCEPT !.pc = "loopQuery"])
       /\ net' = Issue(log, PendingAt(getSignatureStatusRequest(frame.loc.signature),
                                      "in the loop", clock))
       /\ ret' = None
  ELSE /\ stack' = Caller
       /\ net' = log
       /\ ret' = confirmationTimeout(frame.loc)

\* after the query made before the loop
ConfirmTransactionFirstStatus ==
  /\ At("confirmTransaction", "firstQuery")
  /\ \E latency \in Latencies, resp \in SignatureStatusResponses :
       /\ now' = now + latency
       /\ IF resp.t = "reject"
          THEN /\ stack' = Caller
               /\ net' = Settle(net, resp)
               /\ ret' = queryFailed
          ELSE LoopTest([Top EXCEPT !.loc.status = resp.body], now', Settle(net, resp))
  /\ UNCHANGED <<run, calcArgs, console>>

\* after a query made in the loop
ConfirmTransactionLoopStatus ==
  /\ At("confirmTransaction", "loopQuery")
  /\ \E latency \in Latencies, resp \in SignatureStatusResponses :
       /\ now' = now + latency
       /\ net' = Settle(net, resp)
       /\ IF resp.t = "reject"
          THEN /\ stack' = Caller
               /\ ret' = queryFailed
          ELSE IF isFinalized(resp.body)
          THEN /\ stack' = Caller
               /\ ret' = Returned(resp.body)
          ELSE /\ stack' = Append(Caller, [Top EXCEPT !.pc = "sleep",
                                                      !.loc.status = resp.body])
               /\ ret' = None
  /\ UNCHANGED <<run, calcArgs, console>>

\* the timer of the loop fires
ConfirmTransactionWakes ==
  /\ At("confirmTransaction", "sleep")
  /\ now' = now + PollIntervalMs
  /\ LoopTest(Top, now', net)
  /\ UNCHANGED <<run, calcArgs, console>>

(***************************************************************************)
(* sendTransaction, and the transaction script: testTransaction.           *)
(***************************************************************************)
BlockEngineTransactions == "https://mainnet.block-engine.jito.wtf/api/v1/transactions"

\* the transaction of the script, serialized and base64 encoded
base64Transaction == "dHgx"

\* encoding === "base64" ? [transaction, { encoding: "base64" }] : [transaction]
sendParams(transaction, encoding) ==
  IF encoding = "base64" THEN <<transaction, [encoding |-> "base64"]>> ELSE <<transaction>>

\* this.sendTxn(sendParams, bundleOnly), a method of the RPC client
sendTxnRequest(params, bundleOnly) ==
  Pending([verb |-> "POST", url |-> BlockEngineTransactions, method |-> "sendTransaction",
           params |-> params, bundleOnly |-> bundleOnly])

sendTransactionFrame ==
  [fn |-> "sendTransaction", pc |-> "awaitSendTxn", loc |-> [bundleOnly |-> FALSE]]

\* what the block engine answers to sendTransaction
SendTransactionBodies ==
  {[hasResult |-> TRUE, result |-> sig, hasError |-> FALSE] : sig \in Signatures}
    \cup {[hasResult |-> TRUE, result |-> "", hasError |-> FALSE],
          [hasResult |-> FALSE, result |-> "", hasError |-> TRUE],
          [hasResult |-> FALSE, result |-> "", hasError |-> FALSE]}
SendTransactionResponses == {Rejected} \cup {HttpOk(b) : b \in SendTransactionBodies}

\* after `await this.sendTxn(sendParams, bundleOnly)`: the response is returned
SendTransactionSettles ==
  /\ At("sendTransaction", "awaitSendTxn")
  /\ \E resp \in SendTransactionResponses :
       /\ net' = Settle(net, resp)
       /\ ret' = IF resp.t = "reject" THEN Thrown([message |-> "Request failed"])
                 ELSE Returned(resp.body)
  /\ stack' = Caller
  /\ UNCHANGED <<run, calcArgs, console, now>>

testTransactionFrame(pc) == [fn |-> "testTransaction", pc |-> pc, loc |-> [signature |-> ""]]

\* the catch block of the script
CaughtInTransaction(error) ==
  Append(console, Ev("Error sending or confirming transaction:", error.message))

\* the answers the script has read and built into its transaction: from the
\* send on, the log keeps the requests and that they were answered, not the
\* bodies, and the record of the fee computation is dropped
Consumed(log) ==
  [i \in DOMAIN log |-> [log[i] EXCEPT !.resp = [t |-> "http", ok |-> TRUE, status |-> 200]]]

StartTestTransaction ==
  /\ Idle
  /\ \E env \in Environments :
       /\ run' = [op |-> "testTransaction", env |-> env]
       /\ IF env = "ok"
          THEN /\ stack' = <<testTransactionFrame("awaitFees"), getRecommendedFrame("p75"),
                             getTipFloorFrame>>
               /\ net' = <<getTipFloorRequest>>
               /\ ret' = None
               /\ console' = <<Say("Fetching recommended fees...")>>
          ELSE /\ stack' = <<>>
               /\ net' = <<>>
               /\ ret' = Returned(Undefined)
               /\ console' = <<Say(env)>>
  /\ calcArgs' = <<>>
  /\ now' = 0

\* after `await jitoService.getRecommendedFeeFromTipFloor(TipPercentile.P75)`,
\* through getRandomTipAccount and the instructions of the transaction, up to
\* `await connection.getLatestBlockhash()`
TestTransactionAfterFees ==
  /\ At("testTransaction", "awaitFees")
  /\ ret.kind # "none"
  /\ IF ret.kind = "throw"
     THEN /\ console' = CaughtInTransaction(ret.val)
          /\ stack' = <<>>
          /\ ret' = Returned(Undefined)
          /\ UNCHANGED net
     ELSE \E random \in RandomDraws :
            /\ tipAccountAt(randomIndex(random)) # Undefined
            /\ console' = console \o <<Say("Recommended fees:"),
                                       Say("Using Jito tip account:")>>
            /\ stack' = <<testTransactionFrame("awaitBlockhash")>>
            /\ ret' = None
            /\ net' = Append(net, getLatestBlockhashRequest)
  /\ UNCHANGED <<run, calcArgs, now>>

\* after the blockhash: the transaction is signed, serialized and encoded and
\* jitoService.sendTransaction is called, which calls sendTxn at once
TestTransactionAfterBlockhash ==
  /\ At("testTransaction", "awaitBlockhash")
  /\ \E resp \in BlockhashResponses :
       IF resp.t = "reject"
       THEN /\ net' = Settle(net, resp)
            /\ console' = CaughtInTransaction([message |-> "failed to get recent blockhash"])
            /\ stack' = <<>>
            /\ ret' = Returned(Undefined)
       ELSE /\ console' = Append(console, Say("Sending transaction..."))
            /\ stack' = <<testTransactionFrame("awaitSend"), sendTransactionFrame>>
            /\ ret' = None
            /\ net' = Append(Consumed(Settle(net, resp)),
                             sendTxnRequest(sendParams(base64Transaction, "base64"), FALSE))
  /\ calcArgs' = <<>>
  /\ UNCHANGED <<run, now>>

\* if (result.result)
hasSignature(result) == result.hasResult /\ result.result # ""

\* after `await jitoService.sendTransaction(...)`, up to the first await of
\* confirmTransaction(connection, signature, 120000)
TestTransactionAfterSend ==
  /\ At("testTransaction", "awaitSend")
  /\ ret.kind # "none"
  /\ IF ret.kind = "throw"
     THEN /\ console' = CaughtInTransaction(ret.val)
          /\ stack' = <<>>
          /\ ret' = Returned(Undefined)
          /\ UNCHANGED net
     ELSE IF hasSignature(ret.val)
     THEN /\ console' = console \o <<Ev("Transaction send result:", ret.val),
                                     Ev("Transaction signature:", ret.val.result),
                                     Say("Waiting for confirmation...")>>
          /\ stack' = <<[testTransactionFrame("awaitConfirmation")
                           EXCEPT !.loc.signature = ret.val.result],
                        confirmTransactionFrame(ret.val.result, ConfirmTimeoutMs, now)>>
          /\ net' = Append(net, PendingAt(getSignatureStatusRequest(ret.val.result),
                                          "before the loop", now))
          /\ ret' = None
     ELSE /\ console' = console \o <<Ev("Transaction send result:", ret.val)>>
                          \o (IF ret.val.hasError THEN <<Say("Error from Jito:")>> ELSE <<>>)
          /\ stack' = <<>>
          /\ ret' = Returned(Undefined)
          /\ UNCHANGED net
  /\ UNCHANGED <<run, calcArgs, now>>

\* after `await confirmTransaction(...)`, up to
\* `await connection.getSignatureStatus(signature)`
TestTransactionAfterConfirmation ==
  /\ At("testTransaction", "awaitConfirmation")
  /\ ret.kind # "none"
  /\ IF ret.kind = "throw"
     THEN /\ console' = CaughtInTransaction(ret.val)
          /\ stack' = <<>>
          /\ ret' = Returned(Undefined)
          /\ UNCHANGED net
     ELSE /\ console' = Append(console, Ev("Transaction confirmation:", ret.val))
          /\ stack' = <<[Top EXCEPT !.pc = "awaitStatus"]>>
          /\ net' = Append(net, Pending(getSignatureStatusRequest(Top.loc.signature)))
          /\ ret' = None
  /\ UNCHANGED <<run, calcArgs, now>>

\* after the final status: the link is printed, or that it was not finalized
TestTransactionAfterStatus ==
  /\ At("testTransaction", "awaitStatus")
  /\ \E resp \in SignatureStatusResponses :
       /\ net' = Settle(net, resp)
       /\ console' =
            IF resp.t = "reject"
            THEN CaughtInTransaction([message |-> "failed to get signature status"])
            ELSE console \o
                   <<Ev("Transaction status:", resp.body),
                     IF resp.body.hasValue /\ resp.body.confirmationStatus = "finalized"
                     THEN Ev("Transaction finalized. View details on Solscan:",
                             Top.loc.signature)
                     ELSE Say("Transaction was not finalized within the expected time.")>>
  /\ stack' = <<>>
  /\ ret' = Returned(Undefined)
  /\ UNCHANGED <<run, calcArgs, now>>

(***************************************************************************)
(* Several calls of confirmTransaction under way at once, one per          *)
(* signature.  Each call is an async function of its own: stack holds the  *)
(* frames of the calls in the order they were started, a frame that has    *)
(* ended staying in place with its outcome.  Every frame waits for one     *)
(* thing, the answer to its query or its timer, which is due at a known    *)
(* time; the event loop runs the continuations in the order of these       *)
(* times, and Date.now() is the one clock they all read.                   *)
(***************************************************************************)
\* the timeouts of the concurrent calls
ConcurrentTimeouts == {0, 1500}

\* the answers to their queries
ConcurrentResponses ==
  {Rejected,
   HttpOk([hasValue |-> TRUE, confirmationStatus |-> "processed", err |-> NoErr]),
   HttpOk([hasValue |-> TRUE, confirmationStatus |-> "finalized", err |-> NoErr])}

\* the frame of a call: the locals of confirmTransaction, the time at which
\* what it awaits is due, how long the query it awaits takes, the answers it
\* has had with the time each took, and its outcome once it has ended
concurrentFrame(signature, timeoutMs, start, latency) ==
  [fn |-> "confirmTransaction", pc |-> "firstQuery",
   loc |-> confirmTransactionFrame(signature, timeoutMs, start).loc,
   due |-> start + latency, took |-> latency, seen |-> <<>>, out |-> None]

Waiting(i) == stack[i].pc # "done"

\* the continuation of frame i is the next the event loop runs
NextDue(i) ==
  /\ i \in 1..Len(stack)
  /\ Waiting(i)
  /\ \A j \in 1..Len(stack) : Waiting(j) => stack[i].due <= stack[j].due

\* the frame has had the answer resp to the query it awaited
Answered(frame, resp) ==
  [frame EXCEPT !.seen = Append(@, [took |-> frame.took, resp |-> resp])]

EndedWith(frame, outcome) == [frame EXCEPT !.pc = "done", !.out = outcome]

\* the test of the while loop of a frame at the time `clock`: the next query,
\* which will take `latency`, or the timeout error
concurrentLoopTest(frame, clock, latency) ==
  IF loopGoesOn(frame.loc, clock)
  THEN [frame EXCEPT !.pc = "loopQuery", !.due = clock + latency, !.took = latency]
  ELSE EndedWith(frame, confirmationTimeout(frame.loc))

\* a caller starts a call for a signature that has none, at any time
StartConcurrentConfirmTransaction ==
  /\ run.op \in {"none", "confirmTransactions"}
  /\ \E signature \in Signatures, timeoutMs \in ConcurrentTimeouts, latency \in Latencies :
       /\ \A i \in 1..Len(stack) : stack[i].loc.signature # signature
       /\ stack' = Append(stack, concurrentFrame(signature, timeoutMs, now, latency))
  /\ run' = [op |-> "confirmTransactions"]
  /\ UNCHANGED <<ret, net, calcArgs, console, now>>

\* a call has the answer to its query before the loop
ConcurrentFirstStatus ==
  /\ run.op = "confirmTransactions"
  /\ \E i \in 1..Len(stack), resp \in ConcurrentResponses, latency \in Latencies :
       /\ NextDue(i)
       /\ stack[i].pc = "firstQuery"
       /\ now' = stack[i].due
       /\ stack' =
            [stack EXCEPT ![i] =
               IF resp.t = "reject"
               THEN EndedWith(Answered(@, resp), queryFailed)
               ELSE concurrentLoopTest([Answered(@, resp) EXCEPT !.loc.status = resp.body],
                                       now', latency)]
  /\ UNCHANGED <<run, ret, net, calcArgs, console>>

\* a call has the answer to a query of its loop
ConcurrentLoopStatus ==
  /\ run.op = "confirmTransactions"
  /\ \E i \in 1..Len(stack), resp \in ConcurrentResponses :
       /\ NextDue(i)
       /\ stack[i].pc = "loopQuery"
       /\ now' = stack[i].due
       /\ stack' =
            [stack EXCEPT ![i] =
               IF resp.t = "reject"
               THEN EndedWith(Answered(@, resp), queryFailed)
               ELSE IF isFinalized(resp.body)
               THEN EndedWith(Answered(@, resp), Returned(resp.body))
               ELSE [Answered(@, resp) EXCEPT !.pc = "sleep", !.loc.status = resp.body,
                                              !.due = now' + PollIntervalMs]]
  /\ UNCHANGED <<run, ret, net, calcArgs, console>>

\* the timer of a call fires
ConcurrentWakes ==
  /\ run.op = "confirmTransactions"
  /\ \E i \in 1..Len(stack), latency \in Latencies :
       /\ NextDue(i)
       /\ stack[i].pc = "sleep"
       /\ now' = stack[i].due
       /\ stack' = [stack EXCEPT ![i] = concurrentLoopTest(@, now', latency)]
  /\ UNCHANGED <<run, ret, net, calcArgs, console>>

\* the calls have all ended; the next ones start afresh
ConcurrentFinish ==
  /\ run.op = "confirmTransactions"
  /\ \A i \in 1..Len(stack) : ~Waiting(i)
  /\ run' = [op |-> "none"]
  /\ stack' = <<>>
  /\ now' = 0
  /\ UNCHANGED <<ret, net, calcArgs, console>>

(***************************************************************************)
(* The caller takes the outcome of the run; the next run starts afresh.    *)
(***************************************************************************)
Finish ==
  /\ Ended
  /\ run' = [op |-> "none"]
  /\ ret' = None
  /\ net' = <<>>
  /\ calcArgs' = <<>>
  /\ console' = <<>>
  /\ now' = 0
  /\ UNCHANGED stack

Init ==
  /\ run = [op |-> "none"]
  /\ stack = <<>>
  /\ ret = None
  /\ net = <<>>
  /\ calcArgs = <<>>
  /\ console = <<>>
  /\ now = 0

Next ==
  \/ CallCalculateRecommendedFees
  \/ StartGetTipFloor
  \/ GetTipFloorSettles
  \/ StartGetRecommendedFee
  \/ GetRecommendedFeeContinues
  \/ StartSimulateBundle
  \/ SimulateBundleSettles
  \/ StartGetRandomTipAccount
  \/ Finish

Spec == Init /\ [][Next]_vars

\* the runs of the bundle script
BundleNext ==
  \/ StartTestBundle
  \/ GetTipFloorSettles
  \/ GetRecommendedFeeContinues
  \/ TestBundleAfterFees
  \/ TestBundleAfterBlockhash
  \/ SimulateBundleSettles
  \/ TestBundleAfterSimulation
  \/ TestBundleAfterSend
  \/ TestBundleAfterConfirmation
  \/ TestBundleAfterFinalStatus
  \/ Finish

BundleSpec == Init /\ [][BundleNext]_vars

\* the runs of the polling loop
PollNext ==
  \/ StartConfirmTransaction
  \/ ConfirmTransactionFirstStatus
  \/ ConfirmTransactionLoopStatus
  \/ ConfirmTransactionWakes
  \/ Finish

PollSpec == Init /\ [][PollNext]_vars

\* every query is answered or fails, and every timer fires
FairPollSpec ==
  /\ PollSpec
  /\ WF_vars(ConfirmTransactionFirstStatus)
  /\ WF_vars(ConfirmTransactionLoopStatus)
  /\ WF_vars(ConfirmTransactionWakes)

\* the runs of the two submission scripts
WorkflowNext ==
  \/ StartTestBundle
  \/ StartTestTransaction
  \/ GetTipFloorSettles
  \/ GetRecommendedFeeContinues
  \/ TestBundleAfterFees
  \/ TestBundleAfterBlockhash
  \/ SimulateBundleSettles
  \/ TestBundleAfterSimulation
  \/ TestBundleAfterSend
  \/ TestBundleAfterConfirmation
  \/ TestBundleAfterFinalStatus
  \/ TestTransactionAfterFees
  \/ TestTransactionAfterBlockhash
  \/ SendTransactionSettles
  \/ TestTransactionAfterSend
  \/ ConfirmTransactionFirstStatus
  \/ ConfirmTransactionLoopStatus
  \/ ConfirmTransactionWakes
  \/ TestTransactionAfterConfirmation
  \/ TestTransactionAfterStatus
  \/ Finish

WorkflowSpec == Init /\ [][WorkflowNext]_vars

\* polling loops under way at once
ConcurrentNext ==
  \/ StartConcurrentConfirmTransaction
  \/ ConcurrentFirstStatus
  \/ ConcurrentLoopStatus
  \/ ConcurrentWakes
  \/ ConcurrentFinish

ConcurrentSpec == Init /\ [][ConcurrentNext]_vars

(***************************************************************************)
(* Properties of the fee recommendation engine.                            *)
(***************************************************************************)
\* a run of op has ended by returning
ReturnedFrom(op) == run.op = op /\ Ended /\ ret.kind = "return"
ThrownFrom(op) == run.op = op /\ Ended /\ ret.kind = "throw"

\* a recommendation has been returned, directly or through the tip floor
FeesReturned ==
  ReturnedFrom("calculateRecommendedFees") \/ ReturnedFrom("getRecommendedFeeFromTipFloor")

\* the budget of the run, in lamports: totalFeeSol * 1e9
BudgetT == DMul(calcArgs[1], DFromInt(1000000000))
Floor70 == MathFloor(DMul(BudgetT, DLit(7, 10)))
Floor30 == MathFloor(DMul(BudgetT, DLit(3, 10)))

\* C1: every recommendation returned by calculateRecommendedFees has
\* totalFeeLamports = priorityFeeLamports + jitoTipLamports, whether the tip
\* is the proportional share or the 1000-lamport minimum.
C1_TotalIsSumOfParts ==
  FeesReturned =>
    ret.val.totalFeeLamports = ret.val.priorityFeeLamports + ret.val.jitoTipLamports

\* the minimum overrides the share and the total is not the input: 699 + 1000
C1_Witness ==
  /\ ReturnedFrom("calculateRecommendedFees")
  /\ run.totalFeeSol = DLit(999, 1000000000)
  /\ ret.val.jitoTipLamports = 1000
  /\ ret.val.priorityFeeLamports = 699
  /\ ret.val.totalFeeLamports = 1699

C3_ClampRaisesTotal ==
  (FeesReturned /\ Floor30 < 1000) =>
    /\ ret.val.jitoTipLamports = 1000
    /\ ret.val.totalFeeLamports > Floor70 + Floor30

\* the share is one lamport short of the minimum: 2333 + 999 becomes 2333 + 1000
C3_Witness ==
  /\ ReturnedFrom("calculateRecommendedFees")
  /\ Floor30 = 999
  /\ ret.val.jitoTipLamports = 1000
  /\ ret.val.totalFeeLamports = 3333

\* the field of the percentile in the first sample of the fetched body
FirstSampleField ==
  LET first == net[1].resp.body.items[1]
  IN  IF run.percentile = "p50" THEN first.landed_tips_50th_percentile
      ELSE IF run.percentile = "p75" THEN first.landed_tips_75th_percentile
      ELSE IF run.percentile = "p95" THEN first.landed_tips_95th_percentile
      ELSE first.landed_tips_99th_percentile

\* C4: for every percentile and every non-empty fetched sequence,
\* getRecommendedFeeFromTipFloor returns calculateRecommendedFees(v / 0.3), v
\* being the percentile's field of the sample at index 0, whatever the later
\* samples and the other fields hold; 0.0003 at P75 gives 700000 and 300000.
C4_RecommendationFromFirstSample ==
  ReturnedFrom("getRecommendedFeeFromTipFloor") =>
    /\ calcArgs = <<DDiv(FirstSampleField, DLit(3, 10))>>
    /\ ret.val = calculateRecommendedFees(DDiv(FirstSampleField, DLit(3, 10)))
    /\ (FirstSampleField = DLit(3, 10000) =>
          /\ ret.val.priorityFeeLamports = 700000
          /\ ret.val.jitoTipLamports = 300000)

\* 0.0003 at P75 in the first of two samples whose second holds other values
C4_Witness ==
  /\ ReturnedFrom("getRecommendedFeeFromTipFloor")
  /\ run.percentile = "p75"
  /\ Len(net[1].resp.body.items) = 2
  /\ net[1].resp.body.items[1].landed_tips_75th_percentile = DLit(3, 10000)
  /\ net[1].resp.body.items[2].landed_tips_75th_percentile # DLit(3, 10000)
  /\ ret.val.priorityFeeLamports = 700000
  /\ ret.val.jitoTipLamports = 300000

(***************************************************************************)
(* Properties of the error handling of the service.                        *)
(***************************************************************************)
\* C8: simulateBundle called with an absent or empty endpoint fails with the
\* configuration error before any request is issued: no simulateBundle RPC is
\* sent and no simulation result is produced by that call.
C8_NoEndpointNoRequest ==
  (run.op = "simulateBundle" /\ run.rpcEndpoint \in {"<undefined>", ""}) =>
    /\ net = <<>>
    /\ stack = <<>>
    /\ ret.kind = "throw"
    /\ ret.val.message = "RPC endpoint is required for bundle simulation"

\* the empty endpoint, with transactions to simulate
C8_Witness ==
  /\ ThrownFrom("simulateBundle")
  /\ run.rpcEndpoint = ""
  /\ Len(run.params.encodedTransactions) = 2
  /\ net = <<>>

\* the fetch of the run has settled with this kind of answer
FetchRejected == Len(net) >= 1 /\ net[1].resp.t = "reject"
FetchNotOk == Len(net) >= 1 /\ net[1].resp.t = "http" /\ ~net[1].resp.ok
FetchOk == Len(net) >= 1 /\ net[1].resp.t = "http" /\ net[1].resp.ok
FetchedNothing ==
  FetchOk /\ (net[1].resp.body.null \/ net[1].resp.body.items = <<>>)
FetchedEmptySequence ==
  FetchOk /\ ~net[1].resp.body.null /\ net[1].resp.body.items = <<>>

\* C9, as stated: getTipFloor fails when the HTTP status is not successful and
\* fails when the returned sequence has zero elements; it never returns an
\* empty sequence to its caller.
C9_FailsOnEmpty ==
  (run.op = "getTipFloor" /\ Ended) =>
    /\ FetchNotOk => ret.kind = "throw"
    /\ FetchedEmptySequence => ret.kind = "throw"
    /\ ~(ret.kind = "return" /\ ~ret.val.null /\ ret.val.items = <<>>)

\* C9, amended: getTipFloor fails, naming the HTTP status, when the status is
\* not successful; a successful response's body is returned as it is, an
\* empty sequence included.
C9_ReturnsBodyAsIs ==
  (run.op = "getTipFloor" /\ Ended) =>
    /\ FetchNotOk =>
         /\ ret.kind = "throw"
         /\ ret.val.message = "Failed to fetch tip floor"
         /\ ret.val.status = net[1].resp.status
    /\ FetchOk => ret = [kind |-> "return", val |-> net[1].resp.body]

\* getTipFloor has returned the empty sequence it fetched
C9_Witness ==
  /\ ReturnedFrom("getTipFloor")
  /\ FetchedEmptySequence
  /\ ret.val.items = <<>>

\* C10: getRecommendedFeeFromTipFloor fails with the no-data error when the
\* fetched sequence is empty or missing, and a failure of the fetch reaches
\* its caller unchanged; in both cases nothing is returned,
\* calculateRecommendedFees is not invoked and the fetch is made once.
C10_NoDataAndFetchFailure ==
  (run.op = "getRecommendedFeeFromTipFloor" /\ Ended
     /\ (FetchedNothing \/ FetchNotOk \/ FetchRejected)) =>
    /\ ret.kind = "throw"
    /\ FetchedNothing => ret.val = [message |-> "No tip floor data available", status |-> 0]
    /\ FetchNotOk => ret.val = [message |-> "Failed to fetch tip floor",
                                status |-> net[1].resp.status]
    /\ FetchRejected => ret.val = [message |-> "fetch failed", status |-> 0]
    /\ calcArgs = <<>>
    /\ Len(net) = 1

\* the endpoint answered 500 and the caller of the method got that failure
C10_Witness ==
  /\ ThrownFrom("getRecommendedFeeFromTipFloor")
  /\ FetchNotOk
  /\ ret.val.status = 500
  /\ calcArgs = <<>>

(***************************************************************************)
(* Properties of the bundle script.                                        *)
(***************************************************************************)
\* the places of the requests of a method in the log of the run
RequestsOf(method) == {i \in 1..Len(net) : net[i].req.method = method}

\* the simulation of the run has been answered with a body; the body
SimulationAnswered ==
  /\ run.op = "testBundle"
  /\ \E i \in RequestsOf("simulateBundle") : net[i].resp.t = "http" /\ net[i].resp.ok
SimulationBody == net[CHOOSE i \in RequestsOf("simulateBundle") : TRUE].resp.body
SubmittedTxs ==
  net[CHOOSE i \in RequestsOf("simulateBundle") : TRUE].req.params[1].encodedTransactions

\* the script has gone past its tests of the simulation result
SimulationReported ==
  \E i \in 1..Len(console) :
    console[i].e \in {"Bundle simulation failed with error:", "Bundle simulation failed:",
                      "Bundle simulation successful!"}

\* the groups of log lines the script has printed, in the order printed
PrintedLogGroups ==
  LET groups == SelectSeq(console, LAMBDA ev : ev.e = "Transaction logs:")
  IN  [i \in 1..Len(groups) |-> groups[i].arg]

StatusReceived ==
  run.op = "testBundle" /\ \E i \in 1..Len(console) : console[i].e = "Inflight bundle status:"
ReceivedStatus ==
  console[CHOOSE i \in 1..Len(console) : console[i].e = "Inflight bundle status:"].arg

\* what the script printed as the outcome of its classification
OutcomeMessages ==
  {"Bundle successfully confirmed on-chain at slot", "Bundle landed at slot",
   "Bundle processing failed with status:", "Bundle is still pending",
   "Bundle processing failed:", "Unexpected inflight bundle status:"}
Outcomes == SelectSeq(console, LAMBDA ev : ev.e \in OutcomeMessages)

\* the outcome the precedence of C5 gives the received status, where it names one
PrecedenceHolds ==
  LET s == ReceivedStatus
      out == Outcomes[1]
  IN  IF "confirmation_status" \in s.has /\ s.confirmation_status = "confirmed"
      THEN /\ out.e = "Bundle successfully confirmed on-chain at slot"
           /\ out.arg = (IF "slot" \in s.has THEN [t |-> "number", n |-> s.slot]
                         ELSE [t |-> "undefined", n |-> 0])
      ELSE IF "status" \in s.has
      THEN CASE s.status = "Landed" ->
                  /\ out.e = "Bundle landed at slot"
                  /\ out.arg = (IF "landed_slot" \in s.has
                                THEN [t |-> "number", n |-> s.landed_slot]
                                ELSE [t |-> "unknown", n |-> 0])
             [] s.status \in {"Failed", "Invalid"} ->
                  /\ out.e = "Bundle processing failed with status:"
                  /\ out.arg = s.status
             [] s.status = "Pending" -> out.e = "Bundle is still pending"
             [] OTHER -> TRUE
      ELSE IF "err" \in s.has /\ s.err # "null"
      THEN out.e = "Bundle processing failed:" /\ out.arg = s.err
      ELSE out.e = "Unexpected inflight bundle status:"

\* C5: every status the script receives is classified into exactly one
\* outcome, by the precedence: confirmation_status "confirmed" gives CONFIRMED
\* with the slot; otherwise a status field gives LANDED (with landed_slot when
\* present, else unknown), FAILED, INVALID or PENDING; otherwise a truthy err
\* gives FAILED with the err; otherwise the status is UNKNOWN.
C5_ExactlyOneOutcome ==
  StatusReceived => (Len(Outcomes) = 1 /\ PrecedenceHolds)

\* the same, for the statuses whose status field, when it decides, holds one
\* of the four values the script tests for
C5_RecognizedStatuses ==
  (StatusReceived
     /\ (("confirmation_status" \in ReceivedStatus.has
            /\ ReceivedStatus.confirmation_status = "confirmed")
         \/ "status" \notin ReceivedStatus.has
         \/ ReceivedStatus.status \in {"Pending", "Landed", "Failed", "Invalid"}))
    => (Len(Outcomes) = 1 /\ PrecedenceHolds)

(***************************************************************************)
(* Properties of the polling loop.                                         *)
(***************************************************************************)
PollEnded == run.op = "confirmTransaction" /\ Ended

\* the run has made a query inside the loop
LoopEntered == \E i \in 1..Len(net) : net[i].site = "in the loop"

ReturnedTerminalStatus ==
  /\ ret.kind = "return"
  /\ ret.val.hasValue
  /\ ret.val.confirmationStatus = "finalized"

FailedWithTimeout ==
  /\ ret.kind = "throw"
  /\ ret.val.message = "failed to confirm within"
  /\ ret.val.signature = run.signature
  /\ ret.val.timeoutMs = run.timeoutMs
  /\ now >= run.timeoutMs

FailedWithQueryError ==
  /\ ret.kind = "throw"
  /\ ret.val.message = "failed to get signature status"

\* C6: a run of the polling loop for a handle ends in one of two ways: it
\* returns a terminal status, or, the timeout having elapsed, it fails with
\* the timeout error that carries the handle and the duration.
C6_EndsWithStatusOrTimeout ==
  (PollEnded /\ LoopEntered) => (ReturnedTerminalStatus \/ FailedWithTimeout)

\* the ways the loop does end: the two above, and the failure of a query
C6_EndsInOneOfThreeWays ==
  PollEnded => (ReturnedTerminalStatus \/ FailedWithTimeout \/ FailedWithQueryError)

\* with every query answered and every timer firing, every run ends
C6_EveryRunEnds == (run.op = "confirmTransaction") ~> PollEnded

\* the loop waits the same interval before every test of the clock after a
\* status that is not final, and a run whose answers are never final and
\* never fail ends with the timeout error
C6_FixedInterval ==
  [][At("confirmTransaction", "sleep") =>
       /\ now' = now + 1000
       /\ (At("confirmTransaction", "loopQuery")' \/ (PollEnded' /\ FailedWithTimeout'))]_vars

(***************************************************************************)
(* Properties of simulateBundle and getRandomTipAccount.                   *)
(***************************************************************************)
\* C11: simulateBundle with a non-empty endpoint issues exactly one
\* simulateBundle request whose params array has one element that carries
\* the transactions unchanged and in order and the two flags, each false
\* when not given; it fails with a transport error when the HTTP status is
\* not successful and otherwise returns the response body, without a retry.
C11_OneRequestAsGiven ==
  (run.op = "simulateBundle" /\ run.rpcEndpoint \notin {"<undefined>", ""}) =>
    /\ Len(net) = 1
    /\ net[1].req.verb = "POST"
    /\ net[1].req.url = run.rpcEndpoint
    /\ net[1].req.method = "simulateBundle"
    /\ Len(net[1].req.params) = 1
    /\ net[1].req.params[1].encodedTransactions = run.params.encodedTransactions
    /\ net[1].req.params[1].skipSigVerify =
         (IF run.params.skipSigVerify.set THEN run.params.skipSigVerify.v ELSE FALSE)
    /\ net[1].req.params[1].replaceRecentBlockhash =
         (IF run.params.replaceRecentBlockhash.set
          THEN run.params.replaceRecentBlockhash.v ELSE FALSE)
    /\ (Ended /\ FetchNotOk) =>
         /\ ret.kind = "throw"
         /\ ret.val.message = "Failed to simulate bundle"
         /\ ret.val.status = net[1].resp.status
    /\ (Ended /\ FetchOk) => ret = [kind |-> "return", val |-> net[1].resp.body]

\* two different transactions, one flag given as true and one not given, and
\* the body of the answer returned
C11_Witness ==
  /\ ReturnedFrom("simulateBundle")
  /\ run.params.encodedTransactions = <<"dHgy", "dHgx">>
  /\ ~run.params.skipSigVerify.set
  /\ run.params.replaceRecentBlockhash = [set |-> TRUE, v |-> TRUE]
  /\ net[1].req.params[1].replaceRecentBlockhash
  /\ ret.val = net[1].resp.body

\* C12: getRandomTipAccount always returns one of the 8 addresses of
\* TIP_ACCOUNTS, the index it computes being within 0..7; each of the 8
\* addresses is a possible result; and the call makes no network request.
C12_OneOfTheEightAccounts ==
  /\ (run.op = "getRandomTipAccount") =>
       /\ ret.kind = "return"
       /\ \E i \in 1..8 : ret.val = TIP_ACCOUNTS[i]
       /\ randomIndex(run.random) \in 0..7
       /\ net = <<>>
       /\ stack = <<>>
  /\ \A i \in 1..8 : \E random \in RandomDraws :
       tipAccountAt(randomIndex(random)) = TIP_ACCOUNTS[i]

\* the greatest draw, 1 - 2^-53, gives the last address
C12_Witness ==
  /\ ReturnedFrom("getRandomTipAccount")
  /\ run.random = [neg |-> FALSE, m |-> <<32767, 32767, 32767, 255>>, e |-> -53]
  /\ ret.val = "3AVi9Tg9Uo68tJfuvoKvqKNWKkC5wPdSSdeBnizKZ6jT"
  /\ net = <<>>

(***************************************************************************)
(* The realized total against the budget, and the percentile round trip.   *)
(***************************************************************************)
\* calculateRecommendedFees was called with a budget of T lamports, handed
\* over as T / 1e9 SOL
CalledWithBudget(T) ==
  /\ ReturnedFrom("calculateRecommendedFees")
  /\ run.totalFeeSol = DLit(T, 1000000000)

\* C15: for every integer budget of T lamports whose tip is not clamped
\* (floor(T * 0.3) >= 1000) the realized totalFeeLamports is at most T and at
\* least T - 1; and the realized total exceeds the budget only when the
\* minimum tip applied.
C15_RealizedWithinOneLamport ==
  \A T \in BudgetLamports :
    CalledWithBudget(T) =>
      /\ ((3 * (T \div 10) + (3 * (T % 10)) \div 10) >= 1000) =>
           /\ ret.val.totalFeeLamports <= T
           /\ ret.val.totalFeeLamports >= T - 1
      /\ (ret.val.totalFeeLamports > T) => Floor30 < 1000

\* what the code keeps of C15: the realized total is at most T and at least
\* T - 2, and it exceeds T only when the minimum tip applied
C15_RealizedWithinTwoLamports ==
  \A T \in BudgetLamports :
    CalledWithBudget(T) =>
      /\ ((3 * (T \div 10) + (3 * (T % 10)) \div 10) >= 1000) =>
           /\ ret.val.totalFeeLamports <= T
           /\ ret.val.totalFeeLamports >= T - 2
      /\ (ret.val.totalFeeLamports > T) => Floor30 < 1000

\* the budget of 3830 lamports: 2680 + 1148, two lamports short
C15_TwoLamportsShort ==
  /\ CalledWithBudget(3830)
  /\ ret.val.priorityFeeLamports = 2680
  /\ ret.val.jitoTipLamports = 1148
  /\ ret.val.totalFeeLamports = 3828

\* the whole numbers of lamports the percentile fields of the samples are worth
ObservedLamports == {500, 999, 1000, 1003, 5000, 300000, 1000000, 2000000}

\* the recommendation was derived from an observed tip of t lamports
DerivedFromTip(t) ==
  /\ ReturnedFrom("getRecommendedFeeFromTipFloor")
  /\ FirstSampleField = DLit(t, 1000000000)

\* C16: for every observed percentile tip worth a whole number t >= 1000 of
\* lamports, the recommendation derived from it through total = tip / 0.3 has
\* jitoTipLamports = t; for t < 1000 the recommended tip is 1000.
C16_RoundTrip ==
  \A t \in ObservedLamports :
    DerivedFromTip(t) =>
      ret.val.jitoTipLamports = (IF t >= 1000 THEN t ELSE 1000)

\* what the code keeps of C16: the recommended tip is t or one lamport less,
\* and never less than 1000
C16_RoundTripWithinOneLamport ==
  ReturnedFrom("getRecommendedFeeFromTipFloor") =>
    \E t \in ObservedLamports :
      /\ DerivedFromTip(t)
      /\ t < 1000 => ret.val.jitoTipLamports = 1000
      /\ t >= 1000 => ret.val.jitoTipLamports \in {t - 1, t}

\* the observed tip of 1003 lamports comes back as 1002
C16_OneLamportLost ==
  /\ DerivedFromTip(1003)
  /\ ret.val.jitoTipLamports = 1002
  /\ ret.val.priorityFeeLamports = 2340

(***************************************************************************)
(* What confirmTransaction returns.                                        *)
(***************************************************************************)
\* the last query of the run
LastQuery == net[Len(net)]

\* the returned status is the answer to a query that was issued inside the
\* loop while the elapsed time was below the timeout
ReturnedFromTheLoop ==
  /\ ReturnedTerminalStatus
  /\ LastQuery.site = "in the loop"
  /\ LastQuery.req.params = <<run.signature>>
  /\ LastQuery.resp.t = "http"
  /\ LastQuery.resp.body = ret.val
  /\ LastQuery.at < run.timeoutMs

\* C17: confirmTransaction returns only a status whose confirmationStatus is
\* "finalized", the answer to a query made inside the loop while the elapsed
\* time was below timeoutMs; every other exit is the timeout error; the
\* answer to the query made before the loop is never returned, so with
\* timeoutMs <= 0 the function raises the timeout error whatever the status.
C17_FinalizedFromTheLoopOrTimeout ==
  PollEnded =>
    /\ ReturnedFromTheLoop \/ FailedWithTimeout
    /\ run.timeoutMs <= 0 => FailedWithTimeout

\* what the code keeps of C17: the failure of a query is the one other exit
C17_UnlessAQueryFails ==
  PollEnded =>
    /\ ReturnedFromTheLoop \/ FailedWithTimeout \/ FailedWithQueryError
    /\ run.timeoutMs <= 0 =>
         /\ FailedWithTimeout \/ FailedWithQueryError
         /\ Len(net) = 1
    /\ FailedWithTimeout => now >= run.timeoutMs

\* with no time allowed, the query before the loop fails and so does the run,
\* with the error of the query and not with the timeout error
C17_QueryErrorWithNoTimeAllowed ==
  /\ PollEnded
  /\ run.timeoutMs <= 0
  /\ FailedWithQueryError
  /\ LastQuery.site = "before the loop"

\* with no time allowed, a finalized status seen before the loop is not returned
C17_FinalizedBeforeTheLoopIsDropped ==
  /\ PollEnded
  /\ run.timeoutMs = 0
  /\ FailedWithTimeout
  /\ LastQuery.site = "before the loop"
  /\ LastQuery.resp.t = "http"
  /\ LastQuery.resp.body.confirmationStatus = "finalized"

(***************************************************************************)
(* Polling loops under way at once.                                        *)
(***************************************************************************)
\* A loop alone: what one call with the locals loc comes to when the answers
\* to its queries are seen[k], seen[k+1], ..., each taking its own time, the
\* while test being made at the time `clock`.  None when the answers run out.
RECURSIVE AloneFrom(_, _, _, _)
AloneFrom(loc, clock, seen, k) ==
  IF clock - loc.start >= loc.timeoutMs
  THEN [kind |-> "throw",
        val |-> [message |-> "failed to confirm within",
                 signature |-> loc.signature, timeoutMs |-> loc.timeoutMs]]
  ELSE IF k > Len(seen) THEN [kind |-> "none"]
  ELSE IF seen[k].resp.t = "reject"
  THEN [kind |-> "throw", val |-> [message |-> "failed to get signature status"]]
  ELSE IF /\ seen[k].resp.body.hasValue
          /\ seen[k].resp.body.confirmationStatus = "finalized"
  THEN [kind |-> "return", val |-> seen[k].resp.body]
  ELSE AloneFrom(loc, clock + seen[k].took + 1000, seen, k + 1)

Alone(loc, seen) ==
  IF seen = <<>> THEN [kind |-> "none"]
  ELSE IF seen[1].resp.t = "reject"
  THEN [kind |-> "throw", val |-> [message |-> "failed to get signature status"]]
  ELSE AloneFrom(loc, loc.start + seen[1].took, seen, 2)

\* C13: when several polling loops run at once for different handles, under
\* every interleaving of their queries and waits the outcome of each loop is
\* the one it would have alone on the same answers for its own handle.
C13_SameOutcomeAsAlone ==
  (run.op = "confirmTransactions") =>
    \A i \in 1..Len(stack) :
      /\ \A j \in 1..Len(stack) :
           (j # i) => stack[j].loc.signature # stack[i].loc.signature
      /\ ~Waiting(i) => stack[i].out = Alone(stack[i].loc, stack[i].seen)
      /\ Waiting(i) =>
           /\ stack[i].out = [kind |-> "none"]
           /\ Alone(stack[i].loc, stack[i].seen).kind # "return"

\* two loops interleaved: the second started while the first was waiting and
\* they ended differently, the first timing out after the second had started
\* and the second returning a finalized status
C13_Witness ==
  /\ run.op = "confirmTransactions"
  /\ Len(stack) = 2
  /\ ~Waiting(1) /\ ~Waiting(2)
  /\ stack[1].loc.start = 0
  /\ stack[2].loc.start = 500
  /\ stack[1].loc.timeoutMs = 1500
  /\ stack[2].loc.timeoutMs = 1500
  /\ Len(stack[1].seen) = 2
  /\ stack[1].out.kind = "throw"
  /\ stack[1].out.val.message = "failed to confirm within"
  /\ stack[2].out.kind = "return"
  /\ Len(stack[2].seen) = 3

(***************************************************************************)
(* The handle that is polled in the submission scripts.                    *)
(***************************************************************************)
InWorkflow == run.op \in {"testBundle", "testTransaction"}

\* the sends and the status queries of the run, by their place in the log
Sends == {j \in 1..Len(net) : net[j].req.method \in {"sendBundle", "sendTransaction"}}
StatusQueries ==
  {i \in 1..Len(net) :
     net[i].req.method \in {"confirmInflightBundle", "getBundleStatuses",
                            "getSignatureStatuses"}}

\* the handle a status query is about
HandleOf(req) ==
  IF req.method = "getBundleStatuses" THEN req.params[1][1] ELSE req.params[1]

\* the send has been answered with a result, an identifier
ReturnedAResult(j) ==
  /\ net[j].resp.t = "http"
  /\ net[j].resp.ok
  /\ net[j].resp.body.hasResult
  /\ net[j].resp.body.result # ""

\* the send has been answered, without a result
ReturnedNoResult(j) == net[j].resp.t # "pending" /\ ~ReturnedAResult(j)

\* C14: in the submission scripts status polling starts only after a send
\* that returned a result; the bundle handle or transaction signature passed
\* to the polling call is exactly the identifier that send returned; and when
\* the answer to the send has no result no status query is issued in the run.
C14_PollsTheReturnedHandle ==
  InWorkflow =>
    /\ \A i \in StatusQueries :
         \E j \in Sends :
           /\ j < i
           /\ ReturnedAResult(j)
           /\ HandleOf(net[i].req) = net[j].resp.body.result
    /\ \A k \in 1..Len(stack) :
         (stack[k].fn = "confirmTransaction") =>
           \E j \in Sends :
             /\ ReturnedAResult(j)
             /\ stack[k].loc.signature = net[j].resp.body.result
    /\ \A i \in StatusQueries :
         (net[i].req.method = "confirmInflightBundle") =>
           net[i].req.params = <<net[i - 1].resp.body.result, 120000>>
    /\ (\E j \in Sends : ReturnedNoResult(j)) => StatusQueries = {}
    /\ Cardinality(Sends) <= 1

\* the transaction script polled the signature "sig-2" its send returned,
\* inside the loop, and then asked for the final status of the same signature
C14_Witness ==
  /\ run.op = "testTransaction"
  /\ Ended
  /\ Len(net) = 6
  /\ net[3].req.method = "sendTransaction"
  /\ net[3].resp.body.result = "sig-2"
  /\ net[4].site = "before the loop"
  /\ net[5].site = "in the loop"
  /\ net[5].req.params = <<"sig-2">>
  /\ net[5].at >= 1000
  /\ net[6].req.params = <<"sig-2">>
  /\ net[6].resp.t = "http"

\* the bundle script polled the bundle id its send returned
C14_BundleHandlePolled ==
  /\ run.op = "testBundle"
  /\ Ended
  /\ \E i \in StatusQueries :
       /\ net[i].req.method = "getBundleStatuses"
       /\ HandleOf(net[i].req) = "bundle-2"
       /\ net[i - 1].req.params = <<"bundle-2", 120000>>
       /\ net[i - 2].resp.body.result = "bundle-2"

====
